---------------------------- MODULE Spec2Model ----------------------------
(***************************************************************************)
(* A model of nipaa-pac: the PAC archive reader and builder of             *)
(* src/src/main.rs and the TTP animation codec of src/src/ttp.rs.          *)
(*                                                                         *)
(* Byte buffers are sequences of integers 0..255, offsets are 0-based as   *)
(* in the code (a buffer's byte at offset p is buf[p + 1]).  Strings are   *)
(* sequences of Unicode code points.  u32 values are kept exact; every     *)
(* value the model reads or writes stays far below 2^31.                   *)
(***************************************************************************)
EXTENDS Integers, Sequences, FiniteSets, TLC

VARIABLES
    entries,      \* PacArcBuilder.entries: the pending PacEntryWrite records
    names,        \* the &str names add_entry accepted, in order (history)
    addResult,    \* result of the last add_entry call
    phase,        \* "build": builder alive; "file": pack() has written `file`
    file,         \* the bytes of the archive file on disk
    headerSize,   \* size_of::<PacEntryWrite>() of the build that ran pack
    damage,       \* what was done to the file after pack ("none" if nothing)
    cmd,          \* the last command run on the file: "none", "list", "extract"
    arc,          \* what PacArc::read_le returned to that command
    rows,         \* the rows the List command printed
    outDir,       \* the files the Extract command wrote, in order
    cmdResult,    \* how the command ended: "none", "ok", "err", "panic"
    ext,          \* extension remapping: the extension handed in
    extOut,       \* extension remapping: the results of the calls made so far
    ttp,          \* TTP: the TtpFile value in hand ([st |-> "none"] before)
    ttpVia,       \* TTP: how it was obtained: "none", "serde", "binary"
    ttpBytes,     \* TTP: its serialization ("none" before write)
    ttpBack       \* TTP: the result of parsing ttpBytes again

pacVars == <<entries, names, addResult, phase, file, headerSize, damage,
             cmd, arc, rows, outDir, cmdResult>>
extVars == <<ext, extOut>>
ttpVars == <<ttp, ttpVia, ttpBytes, ttpBack>>
vars == <<pacVars, extVars, ttpVars>>

(***************************************************************************)
(* Program constants.                                                      *)
(***************************************************************************)
ENTRY_NAME_SIZE == 56
BMZ_HEADER_SIZE == 8

(***************************************************************************)
(* Bounds of the model.                                                    *)
(***************************************************************************)
MaxEntries == 2
MaxFrames == 1
MaxExtCalls == 3

(***************************************************************************)
(* Bytes and little-endian integers.                                       *)
(***************************************************************************)
Min(a, b) == IF a < b THEN a ELSE b

Rep(x, n) == [i \in 1..n |-> x]

\* The n bytes of buf at offset pos (the caller checks they are there).
Slice(buf, pos, n) == SubSeq(buf, pos + 1, pos + n)

\* Whether a read of n bytes at offset pos reaches the end of the stream.
CanRead(buf, pos, n) == pos >= 0 /\ n >= 0 /\ n <= Len(buf) - pos

\* binrw's little-endian u32 writer.
WriteU32(n) ==
    << n % 256, (n \div 256) % 256, (n \div 65536) % 256, (n \div 16777216) % 256 >>

\* binrw's little-endian u32 reader at offset pos: an Io error at the end
\* of the stream.  A value of 2^31 or more is read as 2^31 - 1: it is then
\* an offset, a size or a count beyond the end of every buffer of the
\* model, and acts as one whatever its exact value.
ReadU32(buf, pos) ==
    IF CanRead(buf, pos, 4)
    THEN [ok |-> TRUE,
          v  |-> IF buf[pos + 4] >= 128 THEN 2147483647
                 ELSE buf[pos + 1] + 256 * buf[pos + 2] + 65536 * buf[pos + 3]
                      + 16777216 * buf[pos + 4]]
    ELSE [ok |-> FALSE, v |-> 0]

\* The offset of the first zero byte of buf at or after pos, or Len(buf)
\* when there is none.
RECURSIVE FindNul(_, _)
FindNul(buf, pos) ==
    IF pos >= Len(buf) THEN Len(buf)
    ELSE IF buf[pos + 1] = 0 THEN pos
    ELSE FindNul(buf, pos + 1)

\* Decimal digits of n as ASCII bytes.
RECURSIVE Digits(_)
Digits(n) == IF n < 10 THEN << 48 + n >> ELSE Digits(n \div 10) \o << 48 + (n % 10) >>

(***************************************************************************)
(* Text codec: encoding_rs SHIFT_JIS, as called at main.rs:37, main.rs:81, *)
(* ttp.rs:46 and ttp.rs:65.  The encoder and decoder follow the WHATWG     *)
(* Shift_JIS algorithms; of the JIS X 0208 index only the pointers the     *)
(* model's alphabet reaches are tabulated (a lookup outside the table is   *)
(* an evaluation error, never a silent default).                           *)
(***************************************************************************)
\* index jis0208, code point -> pointer (partial).
IndexPointer(cp) == IF cp = 12354 THEN 283 ELSE -1   \* U+3042 -> 0x82 0xA0

\* index jis0208, pointer -> code point (partial): 0x82 0xA0 is the only
\* two-byte sequence the model decodes.
IndexCodePoint(pointer) == CASE pointer = 283 -> 12354

\* The encoder's output for one code point: [bytes, err].  An unmappable
\* code point is written as the numeric character reference &#N; and
\* reported through had_errors.
EncodeChar(cp) ==
    IF cp <= 128 THEN [bytes |-> << cp >>, err |-> FALSE]
    ELSE IF cp = 165 THEN [bytes |-> << 92 >>, err |-> FALSE]
    ELSE IF cp = 8254 THEN [bytes |-> << 126 >>, err |-> FALSE]
    ELSE IF cp >= 65377 /\ cp <= 65439
         THEN [bytes |-> << cp - 65377 + 161 >>, err |-> FALSE]
    ELSE LET pointer == IndexPointer(IF cp = 8722 THEN 65293 ELSE cp) IN
         IF pointer < 0
         THEN [bytes |-> << 38, 35 >> \o Digits(cp) \o << 59 >>, err |-> TRUE]
         ELSE LET lead  == pointer \div 188
                  trail == pointer % 188
              IN [bytes |-> << lead + (IF lead < 31 THEN 129 ELSE 193),
                               trail + (IF trail < 63 THEN 64 ELSE 65) >>,
                  err |-> FALSE]

\* SHIFT_JIS.encode(s): (bytes, had_errors).
RECURSIVE EncodeFrom(_, _)
EncodeFrom(s, i) ==
    IF i > Len(s) THEN << >> ELSE EncodeChar(s[i]).bytes \o EncodeFrom(s, i + 1)

SjEncode(s) ==
    [bytes |-> EncodeFrom(s, 1), err |-> \E i \in 1..Len(s) : EncodeChar(s[i]).err]

IsLead(b) == (b >= 129 /\ b <= 159) \/ (b >= 224 /\ b <= 252)
IsTrail(b) == (b >= 64 /\ b <= 126) \/ (b >= 128 /\ b <= 252)

\* SHIFT_JIS.decode(bytes) without a byte order mark (the model's inputs
\* never start with one): (string, had_errors), malformed sequences
\* becoming U+FFFD.
RECURSIVE DecodeFrom(_, _, _, _)
DecodeFrom(b, i, str, err) ==
    IF i > Len(b) THEN [str |-> str, err |-> err]
    ELSE LET x == b[i] IN
         IF x <= 128 THEN DecodeFrom(b, i + 1, Append(str, x), err)
         ELSE IF x >= 161 /\ x <= 223
         THEN DecodeFrom(b, i + 1, Append(str, 65377 - 161 + x), err)
         ELSE IF IsLead(x)
         THEN IF i = Len(b) THEN [str |-> Append(str, 65533), err |-> TRUE]
              ELSE LET y == b[i + 1] IN
                   IF IsTrail(y)
                   THEN LET pointer == (x - (IF x < 160 THEN 129 ELSE 193)) * 188
                                       + y - (IF y < 127 THEN 64 ELSE 65)
                        IN DecodeFrom(b, i + 2, Append(str, IndexCodePoint(pointer)), err)
                   ELSE \* an ASCII byte after the lead is decoded again
                        DecodeFrom(b, IF y < 128 THEN i + 1 ELSE i + 2,
                                   Append(str, 65533), TRUE)
         ELSE DecodeFrom(b, i + 1, Append(str, 65533), TRUE)

SjDecode(b) == DecodeFrom(b, 1, << >>, FALSE)

(***************************************************************************)
(* Compression codec: miniz_oxide's zlib functions, as called at           *)
(* main.rs:168 and main.rs:200.  The stream is modelled by its framing: a  *)
(* header byte, the payload, a one-byte checksum of the payload.           *)
(***************************************************************************)
RECURSIVE SumFrom(_, _)
SumFrom(b, i) == IF i > Len(b) THEN 0 ELSE b[i] + SumFrom(b, i + 1)

SumBytes(b) == SumFrom(b, 1)

Checksum(b) == (1 + SumBytes(b)) % 251

\* compress_to_vec_zlib(data, 5)
Deflate(data) == << 120 >> \o data \o << Checksum(data) >>

\* decompress_to_vec_zlib(bytes): Ok(data) or Err.
Inflate(b) ==
    IF Len(b) >= 2 /\ b[1] = 120
       /\ b[Len(b)] = Checksum(SubSeq(b, 2, Len(b) - 1))
    THEN [ok |-> TRUE, data |-> SubSeq(b, 2, Len(b) - 1)]
    ELSE [ok |-> FALSE, data |-> << >>]

(***************************************************************************)
(* PacFile (main.rs:144-214).                                              *)
(***************************************************************************)
Magic == << 90, 76, 67, 51 >>      \* b"ZLC3"

Bmz(usize, cdata) == [tag |-> "Bmz", uncompressed_size |-> usize, compressed_data |-> cdata]
Other(data) == [tag |-> "Other", data |-> data]

\* PacFile::size
FileSize(f) ==
    IF f.tag = "Bmz" THEN Len(f.compressed_data) + BMZ_HEADER_SIZE ELSE Len(f.data)

\* PacFile::converted_data: Ok(bytes) or Err
ConvertedData(f) ==
    IF f.tag = "Bmz"
    THEN LET r == Inflate(f.compressed_data)
         IN IF r.ok THEN [ok |-> TRUE, data |-> r.data] ELSE [ok |-> FALSE, data |-> << >>]
    ELSE [ok |-> TRUE, data |-> f.data]

ExtBmp == << 98, 109, 112 >>       \* "bmp"
ExtBmz == << 98, 109, 122 >>       \* "bmz"

\* original_ext with the bmp arm lost.
OriginalExtPassThrough(conv_ext) == conv_ext

\* PacFile::original_ext
OriginalExt(conv_ext) == IF conv_ext = ExtBmp THEN ExtBmz ELSE conv_ext

\* PacFile::converted_ext
ConvertedExt(orig_ext) == IF orig_ext = ExtBmz THEN ExtBmp ELSE orig_ext

\* PacFile::convert_back
ConvertBack(data, conv_extension) ==
    IF conv_extension = ExtBmp THEN Bmz(Len(data), Deflate(data)) ELSE Other(data)

\* The derived BinWrite of PacFile: the variant's magic, then its fields.
WritePacFile(f) ==
    IF f.tag = "Bmz"
    THEN Magic \o WriteU32(f.uncompressed_size) \o f.compressed_data
    ELSE f.data

(***************************************************************************)
(* PacEntryWrite and PacArcBuilder (main.rs:53-123).                       *)
(***************************************************************************)
\* NullString's writer under pad_size_to: the bytes, a zero, zeros up to
\* the width.
WriteNullString(bytes, width) ==
    bytes \o << 0 >> \o Rep(0, IF Len(bytes) + 1 < width THEN width - Len(bytes) - 1 ELSE 0)

\* The derived BinWrite of PacEntryWrite: offset, the calculated size, the
\* padded name; data is ignored.
WritePacEntry(e) ==
    WriteU32(e.offset) \o WriteU32(FileSize(e.data))
        \o WriteNullString(e.name, ENTRY_NAME_SIZE)

AlignUp(n, a) == ((n + a - 1) \div a) * a

\* std::mem::size_of::<PacEntryWrite>() (main.rs:109): the size of the
\* value in memory, #[repr(C)] over offset: u32, name: NullString (a Vec:
\* three words) and data: PacFile.  PacFile is a default-representation
\* enum of { u32, Vec } and { Vec }: its variant is told by a tag word
\* beside the u32, or by a niche of the Vec.  ptr is the target's word size
\* in bytes.
SizeOfPacFile(ptr, niche) ==
    AlignUp((IF niche THEN 4 ELSE 8) + 3 * ptr, ptr)

SizeOfPacEntryWrite(ptr, niche) ==
    AlignUp(AlignUp(4, ptr) + 3 * ptr + SizeOfPacFile(ptr, niche), ptr)

\* The targets a build can be made for: 32-bit and 64-bit words.
PointerWidths == { 4, 8 }

\* add_entry with the guard cow.len() <= ENTRY_NAME_SIZE: no room kept for
\* the terminator.
AddEntryResultNoTerminator(name) ==
    LET enc == SjEncode(name) IN
    IF ~enc.err /\ Len(enc.bytes) <= ENTRY_NAME_SIZE THEN "ok"
    ELSE IF enc.err THEN "encode_error"
    ELSE "too_long"

\* PacArcBuilder::add_entry: which arm of the match is taken.
AddEntryResult(name) ==
    LET enc == SjEncode(name) IN
    IF ~enc.err /\ Len(enc.bytes) < ENTRY_NAME_SIZE THEN "ok"
    ELSE IF enc.err THEN "encode_error"
    ELSE "too_long"

\* The entry add_entry pushes.
NewEntry(pacfile, name) ==
    [name |-> SjEncode(name).bytes, data |-> pacfile, offset |-> 0]

\* The loop of PacArcBuilder::pack from entry i on: the two buffers at its
\* end.
RECURSIVE PackLoop(_, _, _, _, _)
PackLoop(es, i, current_offset, header_buff, data_buff) ==
    IF i > Len(es) THEN [header |-> header_buff, data |-> data_buff]
    ELSE LET entry == [es[i] EXCEPT !.offset = current_offset]
         IN PackLoop(es, i + 1, current_offset + FileSize(entry.data),
                     header_buff \o WritePacEntry(entry),
                     data_buff \o WritePacFile(entry.data))

\* PacArcBuilder::pack: the bytes of the output file. size_of is the value
\* of size_of::<PacEntryWrite>() in the build.
PackBytes(es, size_of) ==
    LET bufs == PackLoop(es, 1, size_of * Len(es) + 4, << >>, << >>)
    IN WriteU32(Len(es)) \o bufs.header \o bufs.data

(***************************************************************************)
(* PacArc, PacEntryRead and the PacFile reader (main.rs:24-51, 144-159).   *)
(* The FilePtr32 is resolved when its field is read; an error in a field   *)
(* ends the parse with that error.  A panic is the outcome "panic".        *)
(***************************************************************************)
\* Whether count bytes can be read at offset pos, for a count given as two
\* 16-bit limbs hi * 65536 + lo (a count up to 2^32 - 1).
CanReadWide(buf, pos, hi, lo) ==
    LET rem == Len(buf) - pos
    IN /\ rem >= 0
       /\ \/ rem \div 65536 > hi
          \/ rem \div 65536 = hi /\ rem % 65536 >= lo

\* The Bmz variant of the derived BinRead of PacFile, at offset pos with the
\* imported size: the magic, uncompressed_size, then
\* count = size - BMZ_HEADER_SIZE bytes.  The subtraction is on u32: when
\* size < 8 it panics in a build with overflow checks and wraps to
\* size - 8 + 2^32 in a build without.
ReadBmz(buf, pos, size, overflow_checks) ==
    IF ~(CanRead(buf, pos, 4) /\ Slice(buf, pos, 4) = Magic) THEN [st |-> "err"]
    ELSE IF ~ReadU32(buf, pos + 4).ok THEN [st |-> "err"]
    ELSE IF size < BMZ_HEADER_SIZE
    THEN IF overflow_checks THEN [st |-> "panic"]
         ELSE IF CanReadWide(buf, pos + 8, 65535, 65536 + size - BMZ_HEADER_SIZE)
              THEN [st |-> "ok",
                    file |-> Bmz(ReadU32(buf, pos + 4).v,
                                 SubSeq(buf, pos + 9, Len(buf)))]
              ELSE [st |-> "err"]
    ELSE IF CanRead(buf, pos + 8, size - BMZ_HEADER_SIZE)
    THEN [st |-> "ok",
          file |-> Bmz(ReadU32(buf, pos + 4).v,
                       Slice(buf, pos + 8, size - BMZ_HEADER_SIZE))]
    ELSE [st |-> "err"]

\* The Other variant: size bytes.
ReadOther(buf, pos, size) ==
    IF CanRead(buf, pos, size)
    THEN [st |-> "ok", file |-> Other(Slice(buf, pos, size))]
    ELSE [st |-> "err"]

\* The derived BinRead of the enum PacFile: the variants in order, the
\* next one tried from the same offset when one fails.
ReadPacFile(buf, pos, size, overflow_checks) ==
    LET b == ReadBmz(buf, pos, size, overflow_checks)
    IN IF b.st = "err" THEN ReadOther(buf, pos, size) ELSE b

\* PacEntryRead with the name decoded as it is read: a name that is no
\* Shift-JIS fails the entry.
ReadPacEntryEager(buf, p, overflow_checks) ==
    LET size == ReadU32(buf, p + 4)
        ptr  == ReadU32(buf, p)
        f    == ReadPacFile(buf, ptr.v, size.v, overflow_checks)
        nul  == FindNul(buf, p + 8)
    IN IF ~size.ok THEN [st |-> "err"]
       ELSE IF f.st # "ok" THEN [st |-> f.st]
       ELSE IF nul >= Len(buf) THEN [st |-> "err"]
       ELSE IF SjDecode(Slice(buf, p + 8, nul - (p + 8))).err THEN [st |-> "err"]
       ELSE [st    |-> "ok",
             entry |-> [size |-> size.v, file |-> f.file,
                        name |-> Slice(buf, p + 8, nul - (p + 8))],
             next  |-> IF nul - (p + 8) + 1 < ENTRY_NAME_SIZE
                       THEN p + 8 + ENTRY_NAME_SIZE ELSE nul + 1]

\* The derived BinRead of PacEntryRead at offset p: size from p + 4, the
\* pointer from p and the PacFile it points to, the NullString from p + 8,
\* padded to ENTRY_NAME_SIZE.  next is the offset the reader is left at.
ReadPacEntry(buf, p, overflow_checks) ==
    LET size == ReadU32(buf, p + 4)
        ptr  == ReadU32(buf, p)
        f    == ReadPacFile(buf, ptr.v, size.v, overflow_checks)
        nul  == FindNul(buf, p + 8)
    IN IF ~size.ok THEN [st |-> "err"]
       ELSE IF f.st # "ok" THEN [st |-> f.st]
       ELSE IF nul >= Len(buf) THEN [st |-> "err"]
       ELSE [st    |-> "ok",
             entry |-> [size |-> size.v, file |-> f.file,
                        name |-> Slice(buf, p + 8, nul - (p + 8))],
             next  |-> IF nul - (p + 8) + 1 < ENTRY_NAME_SIZE
                       THEN p + 8 + ENTRY_NAME_SIZE ELSE nul + 1]

\* The count = entries_count elements of PacArc.entries from offset p.
RECURSIVE ReadEntries(_, _, _, _, _)
ReadEntries(buf, p, count, overflow_checks, read) ==
    IF count = 0 THEN [st |-> "ok", entries |-> read]
    ELSE LET e == ReadPacEntry(buf, p, overflow_checks) IN
         IF e.st # "ok" THEN [st |-> e.st, entries |-> << >>]
         ELSE ReadEntries(buf, e.next, count - 1, overflow_checks, Append(read, e.entry))

\* PacArc::read_le
ReadPacArc(buf, overflow_checks) ==
    LET n == ReadU32(buf, 0) IN
    IF ~n.ok THEN [st |-> "err", entries_count |-> 0, entries |-> << >>]
    ELSE LET es == ReadEntries(buf, 4, n.v, overflow_checks, << >>)
         IN [st |-> es.st, entries_count |-> n.v, entries |-> es.entries]

\* PacEntryRead::name
EntryName(e) ==
    LET d == SjDecode(e.name) IN [ok |-> ~d.err, text |-> d.str]

(***************************************************************************)
(* The commands (main.rs:125-141, 244-317).                                *)
(***************************************************************************)
\* The offset of the last '.' of a file name, 0 when there is none.
RECURSIVE LastDot(_, _)
LastDot(name, i) ==
    IF i = 0 THEN 0 ELSE IF name[i] = 46 THEN i ELSE LastDot(name, i - 1)

\* Path::new(name).extension().and_then(to_str).unwrap_or(""), for a name
\* that is one path component.
Extension(name) ==
    LET d == LastDot(name, Len(name))
    IN IF d > 1 THEN SubSeq(name, d + 1, Len(name)) ELSE << >>

\* Path::with_extension on the file name.
WithExtension(name, e) ==
    LET d    == LastDot(name, Len(name))
        stem == IF d > 1 THEN SubSeq(name, 1, d - 1) ELSE name
    IN IF e = << >> THEN stem ELSE stem \o << 46 >> \o e

\* The loop of PacArc::extract_all from entry i on: the files written and
\* how the loop ended.  The ? on name() and on converted_data() return from
\* the function.
RECURSIVE ExtractLoop(_, _, _)
ExtractLoop(es, i, written) ==
    IF i > Len(es) THEN [st |-> "ok", written |-> written]
    ELSE LET name == EntryName(es[i])
             data == ConvertedData(es[i].file)
         IN IF ~name.ok THEN [st |-> "err", written |-> written]
            ELSE IF ~data.ok THEN [st |-> "err", written |-> written]
            ELSE LET path == WithExtension(name.text, ConvertedExt(Extension(name.text)))
                 IN ExtractLoop(es, i + 1,
                        Append(written, [path |-> path, data |-> data.data, index |-> i]))

\* PacArc::extract_all
ExtractAll(a) == ExtractLoop(a.entries, 1, << >>)

\* The rows of Commands::List: one println per entry.
ListRows(a) ==
    [i \in 1..Len(a.entries) |->
        LET e == a.entries[i]
            name == EntryName(e)
        IN [idx  |-> i - 1,
            size |-> e.size,
            info |-> IF e.file.tag = "Bmz"
                     THEN [kind |-> "bmz", uncompressed_size |-> e.file.uncompressed_size]
                     ELSE [kind |-> "other", uncompressed_size |-> 0],
            name_ok |-> name.ok,
            name |-> name.text]]

(***************************************************************************)
(* TTP animation codec (ttp.rs).                                           *)
(***************************************************************************)
None == [some |-> FALSE, v |-> 0]
Some(x) == [some |-> TRUE, v |-> x]

\* The derived BinWrite of ResName: len as stored, then the bytes.
WriteResName(r) == WriteU32(r.len) \o r.sj_bytes

\* The derived BinWrite of TtpFrame.
WriteTtpFrame(f) ==
    WriteResName(f.sprite_name) \o WriteResName(f.se_name) \o WriteResName(f.textbox_name)
        \o WriteU32(f.delay_ms) \o WriteU32(f.x_offset_textbox)
        \o WriteU32(f.y_offset_textbox) \o WriteU32(f.x_offset) \o WriteU32(f.y_offset)

RECURSIVE WriteTtpFramesFrom(_, _)
WriteTtpFramesFrom(fs, i) ==
    IF i > Len(fs) THEN << >> ELSE WriteTtpFrame(fs[i]) \o WriteTtpFramesFrom(fs, i + 1)

\* BinWrite of Vec<TtpFrame>: the elements in order.
WriteTtpFrames(fs) == WriteTtpFramesFrom(fs, 1)

\* BinWrite of Option<u8>: the byte of a Some, nothing for None.
WriteOption(o) == IF o.some THEN << o.v >> ELSE << >>

\* The derived BinWrite of TtpFile: every field in order (count and if are
\* directives of the reader only).
WriteTtpFile(t) ==
    WriteU32(t.maybe_ttp_type) \o WriteU32(t.frame_count) \o WriteU32(t.window_width)
        \o WriteU32(t.window_height) \o WriteTtpFrames(t.frames) \o WriteOption(t.unk_bool)

\* The derived BinRead of ResName at offset pos.
ReadResName(buf, pos) ==
    LET len == ReadU32(buf, pos) IN
    IF len.ok /\ CanRead(buf, pos + 4, len.v)
    THEN [ok |-> TRUE, v |-> [len |-> len.v, sj_bytes |-> Slice(buf, pos + 4, len.v)],
          next |-> pos + 4 + len.v]
    ELSE [ok |-> FALSE]

\* The derived BinRead of TtpFrame at offset pos.
ReadTtpFrame(buf, pos) ==
    LET a == ReadResName(buf, pos) IN
    IF ~a.ok THEN [ok |-> FALSE] ELSE
    LET b == ReadResName(buf, a.next) IN
    IF ~b.ok THEN [ok |-> FALSE] ELSE
    LET c == ReadResName(buf, b.next) IN
    IF ~c.ok THEN [ok |-> FALSE] ELSE
    IF ~CanRead(buf, c.next, 20) THEN [ok |-> FALSE] ELSE
    [ok |-> TRUE,
     v  |-> [sprite_name |-> a.v, se_name |-> b.v, textbox_name |-> c.v,
             delay_ms |-> ReadU32(buf, c.next).v,
             x_offset_textbox |-> ReadU32(buf, c.next + 4).v,
             y_offset_textbox |-> ReadU32(buf, c.next + 8).v,
             x_offset |-> ReadU32(buf, c.next + 12).v,
             y_offset |-> ReadU32(buf, c.next + 16).v],
     next |-> c.next + 20]

\* count frames from offset pos.
RECURSIVE ReadTtpFrames(_, _, _, _)
ReadTtpFrames(buf, pos, count, read) ==
    IF count = 0 THEN [ok |-> TRUE, v |-> read, next |-> pos]
    ELSE LET f == ReadTtpFrame(buf, pos) IN
         IF ~f.ok THEN [ok |-> FALSE]
         ELSE ReadTtpFrames(buf, f.next, count - 1, Append(read, f.v))

\* The derived BinRead of TtpFile: four u32, frame_count frames, and the
\* trailing u8 if maybe_ttp_type == 3.
ReadTtpFile(buf) ==
    IF ~CanRead(buf, 0, 16) THEN [st |-> "err"] ELSE
    LET type   == ReadU32(buf, 0).v
        count  == ReadU32(buf, 4).v
        frames == ReadTtpFrames(buf, 16, count, << >>)
    IN IF ~frames.ok THEN [st |-> "err"]
       ELSE IF type = 3 /\ ~CanRead(buf, frames.next, 1) THEN [st |-> "err"]
       ELSE [st |-> "ok",
             value |-> [maybe_ttp_type |-> type, frame_count |-> count,
                        window_width |-> ReadU32(buf, 8).v,
                        window_height |-> ReadU32(buf, 12).v,
                        frames |-> frames.v,
                        unk_bool |-> IF type = 3 THEN Some(buf[frames.next + 1]) ELSE None]]

\* ResNameVisitor::visit_str
VisitStr(v) ==
    LET encoded == SjEncode(v) IN
    IF encoded.err THEN [ok |-> FALSE]
    ELSE [ok |-> TRUE, v |-> [len |-> Len(encoded.bytes), sj_bytes |-> encoded.bytes]]

\* The derived Deserialize of TtpFrame: the three names through the
\* visitor, the numbers as they are.
DeserializeFrame(j) ==
    LET a == VisitStr(j.sprite_name)
        b == VisitStr(j.se_name)
        c == VisitStr(j.textbox_name)
    IN IF a.ok /\ b.ok /\ c.ok
       THEN [ok |-> TRUE,
             v |-> [j EXCEPT !.sprite_name = a.v, !.se_name = b.v, !.textbox_name = c.v]]
       ELSE [ok |-> FALSE]

\* The derived Deserialize of TtpFile: every field as the document gives
\* it.
DeserializeTtpFile(j) ==
    IF \A i \in 1..Len(j.frames) : DeserializeFrame(j.frames[i]).ok
    THEN [st |-> "ok",
          value |-> [j EXCEPT !.frames =
                        [i \in 1..Len(j.frames) |-> DeserializeFrame(j.frames[i]).v]]]
    ELSE [st |-> "err"]

(***************************************************************************)
(* Inputs.                                                                 *)
(***************************************************************************)
NameBmz     == << 97, 46, 98, 109, 122 >>     \* "a.bmz"
NameKana    == << 12354 >>                    \* U+3042, two bytes encoded
NameYen     == << 165 >>                      \* U+00A5, encoded as 0x5C
NameNul     == << 97, 0, 98 >>                \* "a\0b"
NameC       == << 99 >>                       \* "c"
NameLong55  == Rep(97, ENTRY_NAME_SIZE - 1)
NameLong56  == Rep(97, ENTRY_NAME_SIZE)
NameEmoji   == << 128512 >>                   \* U+1F600, needs a replacement
NameEmojiLong == << 128512 >> \o Rep(97, ENTRY_NAME_SIZE - 6)

\* The (name, body) pairs handed to add_entry.
EntryInputs ==
    { [name |-> NameBmz,    data |-> ConvertBack(<< 7, 7 >>, ExtBmp)],
      [name |-> NameKana,   data |-> Other(<< 1, 2, 3 >>)],
      [name |-> NameYen,    data |-> Bmz(5, << 9 >>)],
      [name |-> NameNul,    data |-> Other(<< 5 >>)],
      [name |-> NameLong55, data |-> Other(Magic \o << 1, 0, 0, 0, 9 >>)],
      [name |-> NameC,      data |-> Other(Magic)],
      [name |-> NameLong56, data |-> Other(<< 1, 2, 3 >>)],
      [name |-> NameEmoji,  data |-> Other(<< 1, 2, 3 >>)],
      [name |-> NameEmojiLong, data |-> Other(<< 1, 2, 3 >>)] }

\* The on-disk header record: u32 offset, u32 size, the name slot.
HeaderRecordSize == 8 + ENTRY_NAME_SIZE

\* Name slots written over a header's, terminated but no Shift-JIS: a byte
\* that is none, and a lead byte with no trail.
BadNameSlots ==
    { WriteNullString(<< 255 >>, ENTRY_NAME_SIZE),
      WriteNullString(<< 97, 130 >>, ENTRY_NAME_SIZE) }

\* Lengths a file is cut to: nothing, inside the count, inside a header's
\* size field and name slot, after the first header, inside the last body.
TruncPoints(f) ==
    { k \in { 0, 3, 9, 13, 4 + HeaderRecordSize, Len(f) - 1 } : k >= 0 /\ k < Len(f) }

Overwrite(buf, pos, bytes) ==
    [i \in 1..Len(buf) |->
        IF i > pos /\ i <= pos + Len(bytes) THEN bytes[i - pos] ELSE buf[i]]

NoDamage == [kind |-> "none", index |-> 0]

(***************************************************************************)
(* PAC: the state machine.  One archive is followed from the builder to    *)
(* the file pack() writes, through at most one change made to the file     *)
(* before it is read, to the commands run on it.                           *)
(***************************************************************************)
NoArc == [st |-> "none", entries_count |-> 0, entries |-> << >>]
NoAdd == [res |-> "none", name |-> << >>, before |-> << >>]

PacInit ==
    /\ entries = << >>
    /\ names = << >>
    /\ addResult = NoAdd
    /\ phase = "build"
    /\ file = << >>
    /\ headerSize = 0
    /\ damage = NoDamage
    /\ cmd = "none"
    /\ arc = NoArc
    /\ rows = << >>
    /\ outDir = << >>
    /\ cmdResult = "none"

ExtIdle == ext = << >> /\ extOut = << >>

NoTtp == [st |-> "none"]

TtpIdle == ttp = NoTtp /\ ttpVia = "none" /\ ttpBytes = NoTtp /\ ttpBack = NoTtp

\* PacArcBuilder::add_entry(file, name)
AddEntry(pacfile, name) ==
    /\ phase = "build"
    /\ Len(entries) < MaxEntries
    /\ LET res == AddEntryResult(name) IN
       /\ addResult' = [res |-> res, name |-> name, before |-> entries]
       /\ entries' = IF res = "ok" THEN Append(entries, NewEntry(pacfile, name))
                     ELSE entries
       /\ names' = IF res = "ok" THEN Append(names, name) ELSE names
    /\ UNCHANGED <<phase, file, headerSize, damage, cmd, arc, rows, outDir, cmdResult>>
    /\ UNCHANGED <<extVars, ttpVars>>

\* PacArcBuilder::pack(out_path), in a build for a target of word size ptr.
Pack(ptr, niche) ==
    /\ phase = "build"
    /\ phase' = "file"
    /\ headerSize' = SizeOfPacEntryWrite(ptr, niche)
    /\ file' = PackBytes(entries, SizeOfPacEntryWrite(ptr, niche))
    /\ addResult' = NoAdd
    /\ UNCHANGED <<entries, names, damage, cmd, arc, rows, outDir, cmdResult>>
    /\ UNCHANGED <<extVars, ttpVars>>

\* The file is changed before it is read.
Damage(kind, index, newFile) ==
    /\ phase = "file"
    /\ damage = NoDamage
    /\ cmd = "none"
    /\ damage' = [kind |-> kind, index |-> index]
    /\ file' = newFile
    /\ UNCHANGED <<entries, names, addResult, phase, headerSize, cmd, arc, rows,
                   outDir, cmdResult>>
    /\ UNCHANGED <<extVars, ttpVars>>

Truncate == \E k \in TruncPoints(file) : Damage("truncate", 0, SubSeq(file, 1, k))

PatchSize ==
    \E i \in 1..Len(entries), v \in { 0, 7 } :
        Damage("size", i, Overwrite(file, 4 + HeaderRecordSize * (i - 1) + 4, WriteU32(v)))

PatchName ==
    \E i \in 1..Len(entries), slot \in BadNameSlots :
        Damage("name", i, Overwrite(file, 4 + HeaderRecordSize * (i - 1) + 8, slot))

\* A name slot loses its terminator.
Unterminate ==
    \E i \in 1..Len(entries) :
        Damage("unterminated", i,
               Overwrite(file, 4 + HeaderRecordSize * (i - 1) + 8, Rep(65, ENTRY_NAME_SIZE)))

PatchCount ==
    \E v \in { 0, Len(entries) + 1 } :
        /\ v # Len(entries)
        /\ Damage("count", 0, Overwrite(file, 0, WriteU32(v)))

\* Commands::List, in a build with or without overflow checks.
List(overflow_checks) ==
    /\ phase = "file"
    /\ LET a == ReadPacArc(file, overflow_checks) IN
       /\ arc' = a
       /\ cmdResult' = a.st
       /\ rows' = IF a.st = "ok" THEN ListRows(a) ELSE << >>
    /\ cmd' = "list"
    /\ outDir' = << >>
    /\ UNCHANGED <<entries, names, addResult, phase, file, headerSize, damage>>
    /\ UNCHANGED <<extVars, ttpVars>>

\* Commands::Extract, in a build with or without overflow checks.
Extract(overflow_checks) ==
    /\ phase = "file"
    /\ LET a == ReadPacArc(file, overflow_checks) IN
       /\ arc' = a
       /\ cmdResult' = IF a.st = "ok" THEN ExtractAll(a).st ELSE a.st
       /\ outDir' = IF a.st = "ok" THEN ExtractAll(a).written ELSE << >>
    /\ cmd' = "extract"
    /\ rows' = << >>
    /\ UNCHANGED <<entries, names, addResult, phase, file, headerSize, damage>>
    /\ UNCHANGED <<extVars, ttpVars>>

Next ==
    \/ \E e \in EntryInputs : AddEntry(e.data, e.name)
    \/ \E ptr \in PointerWidths, niche \in BOOLEAN : Pack(ptr, niche)
    \/ Truncate
    \/ PatchSize
    \/ PatchName
    \/ Unterminate
    \/ PatchCount
    \/ \E oc \in BOOLEAN : List(oc)
    \/ \E oc \in BOOLEAN : Extract(oc)

Init == PacInit /\ ExtIdle /\ TtpIdle

Spec == Init /\ [][Next]_vars

(***************************************************************************)
(* Extension remapping: the two pure functions, applied to an extension    *)
(* and to each other's results (extract_all maps an entry's extension with *)
(* converted_ext, the Pack command maps a file's with original_ext).       *)
(***************************************************************************)
ExtInputs ==
    { << >>, ExtBmp, ExtBmz,
      << 66, 77, 80 >>,          \* "BMP"
      << 66, 77, 90 >>,          \* "BMZ"
      << 100, 97, 116 >>,        \* "dat"
      << 98, 109 >>,             \* "bm"
      << 98, 109, 112, 122 >>,   \* "bmpz"
      << 112, 110, 103 >> }      \* "png"

ExtStart == ext \in ExtInputs /\ extOut = << >>

\* The value the next call is made on.
ExtCurrent == IF extOut = << >> THEN ext ELSE extOut[Len(extOut)].res

CallConvertedExt ==
    /\ Len(extOut) < MaxExtCalls
    /\ extOut' = Append(extOut, [fn |-> "converted_ext", arg |-> ExtCurrent,
                                 res |-> ConvertedExt(ExtCurrent)])
    /\ UNCHANGED <<ext, pacVars, ttpVars>>

CallOriginalExt ==
    /\ Len(extOut) < MaxExtCalls
    /\ extOut' = Append(extOut, [fn |-> "original_ext", arg |-> ExtCurrent,
                                 res |-> OriginalExt(ExtCurrent)])
    /\ UNCHANGED <<ext, pacVars, ttpVars>>

ExtNext == CallConvertedExt \/ CallOriginalExt

ExtInit == PacInit /\ ExtStart /\ TtpIdle

ExtSpec == ExtInit /\ [][ExtNext]_vars

(***************************************************************************)
(* TTP: a TtpFile is obtained by serde or by the binary reader, written,   *)
(* and read again.                                                         *)
(***************************************************************************)
\* Frames of a document: the names are strings, the numbers u32.
FrameDocs ==
    { [sprite_name |-> sp, se_name |-> se, textbox_name |-> << 116 >>,
       delay_ms |-> 100, x_offset_textbox |-> 1, y_offset_textbox |-> 2,
       x_offset |-> 3, y_offset |-> 4] :
      sp \in { << >>, NameKana, NameEmoji }, se \in { << >>, NameYen } }

RECURSIVE SeqsUpTo(_, _)
SeqsUpTo(S, n) ==
    IF n = 0 THEN { << >> }
    ELSE SeqsUpTo(S, n - 1)
         \cup { Append(q, x) : q \in { r \in SeqsUpTo(S, n - 1) : Len(r) = n - 1 }, x \in S }

\* The documents handed to serde: every field is free.
TtpDocs ==
    { [maybe_ttp_type |-> t, frame_count |-> c, window_width |-> 640,
       window_height |-> 480, frames |-> fs, unk_bool |-> u] :
      t \in { 1, 3 }, c \in 0..(MaxFrames + 1), fs \in SeqsUpTo(FrameDocs, MaxFrames),
      u \in { None, Some(1) } }

\* The byte streams handed to the binary reader: files as the writer makes
\* them, whole, cut by a byte, or with a byte after them.
TtpStreams ==
    UNION { { b, SubSeq(b, 1, Len(b) - 1), b \o << 1 >> } :
            b \in { WriteTtpFile(DeserializeTtpFile(d).value) :
                    d \in { x \in TtpDocs : DeserializeTtpFile(x).st = "ok" } } }

\* serde: TtpFile::deserialize
Deserialize(doc) ==
    /\ ttpVia = "none"
    /\ ttp' = DeserializeTtpFile(doc)
    /\ ttpVia' = "serde"
    /\ UNCHANGED <<ttpBytes, ttpBack, pacVars, extVars>>

\* binrw: TtpFile::read_le
ReadTtp(stream) ==
    /\ ttpVia = "none"
    /\ ttp' = ReadTtpFile(stream)
    /\ ttpVia' = "binary"
    /\ UNCHANGED <<ttpBytes, ttpBack, pacVars, extVars>>

\* binrw: write_le(&ttp)
WriteTtp ==
    /\ ttp.st = "ok"
    /\ ttpBytes.st = "none"
    /\ ttpBytes' = [st |-> "ok", bytes |-> WriteTtpFile(ttp.value)]
    /\ UNCHANGED <<ttp, ttpVia, ttpBack, pacVars, extVars>>

\* binrw: TtpFile::read_le on the bytes written
ReadBack ==
    /\ ttpBytes.st = "ok"
    /\ ttpBack.st = "none"
    /\ ttpBack' = ReadTtpFile(ttpBytes.bytes)
    /\ UNCHANGED <<ttp, ttpVia, ttpBytes, pacVars, extVars>>

TtpNext ==
    \/ \E doc \in TtpDocs : Deserialize(doc)
    \/ \E stream \in TtpStreams : ReadTtp(stream)
    \/ WriteTtp
    \/ ReadBack

TtpInit == PacInit /\ ExtIdle /\ TtpIdle

TtpSpec == TtpInit /\ [][TtpNext]_vars

(***************************************************************************)
(* Properties.                                                             *)
(***************************************************************************)
\* The offset of the i-th header record of a file.
HeaderAt(i) == 4 + HeaderRecordSize * (i - 1)

\* The sum of the serialized body sizes of the first k entries.
RECURSIVE SumSizes(_, _)
SumSizes(es, k) == IF k = 0 THEN 0 ELSE SumSizes(es, k - 1) + FileSize(es[k].data)

\* pack() ran in a build where size_of::<PacEntryWrite>() is the size of
\* the header record on disk, as it is for a 64-bit target.
OffsetsRight == headerSize = HeaderRecordSize

\* A command has read the file pack() wrote, unchanged.  (Only archives
\* with the right offsets are looked at, so that what fails here does not
\* fail for the offsets.)
ReadPristine == cmd # "none" /\ damage = NoDamage /\ OffsetsRight

\* C1: an archive written by pack() from the pairs add_entry accepted and
\* read again has entries_count equal to the number of pairs, and its i-th
\* entry has the i-th name and the converted_data() of the i-th body.
C1_RoundTrip ==
    ReadPristine =>
        /\ arc.st = "ok"
        /\ arc.entries_count = Len(names)
        /\ Len(arc.entries) = Len(names)
        /\ \A i \in 1..Len(names) :
              /\ EntryName(arc.entries[i]) = [ok |-> TRUE, text |-> names[i]]
              /\ ConvertedData(arc.entries[i].file) = ConvertedData(entries[i].data)

\* C2: the file pack() writes is the count, the n headers and the n bodies
\* in insertion order; the offset in the i-th header is 4 + n * 64 plus the
\* sizes of the bodies before it, and the bytes there are the i-th body.
C2_OffsetBookkeeping ==
    (phase = "file" /\ damage = NoDamage) =>
        LET n == Len(entries) IN
        /\ SubSeq(file, 1, 4) = WriteU32(n)
        /\ \A i \in 1..n :
              LET offset == 4 + n * HeaderRecordSize + SumSizes(entries, i - 1)
                  size   == FileSize(entries[i].data)
              IN /\ ReadU32(file, HeaderAt(i)).v = offset
                 /\ ReadU32(file, HeaderAt(i) + 4).v = size
                 /\ Slice(file, HeaderAt(i) + 8, ENTRY_NAME_SIZE)
                        = WriteNullString(entries[i].name, ENTRY_NAME_SIZE)
                 /\ CanRead(file, offset, size)
                 /\ Slice(file, offset, size) = WritePacFile(entries[i].data)
        /\ Len(file) = 4 + n * HeaderRecordSize + SumSizes(entries, n)

\* C3: when extract_all meets an entry whose name is no Shift-JIS, it
\* reports an error and still writes every later entry whose name decodes
\* and whose body converts.
C3_ExtractContinues ==
    (cmd = "extract" /\ arc.st = "ok" /\ OffsetsRight) =>
        \A i \in 1..Len(arc.entries) :
            ~EntryName(arc.entries[i]).ok =>
                /\ cmdResult = "err"
                /\ \A j \in (i + 1)..Len(arc.entries) :
                      (EntryName(arc.entries[j]).ok /\ ConvertedData(arc.entries[j].file).ok)
                          => \E k \in 1..Len(outDir) : outDir[k].index = j

\* The last add_entry call appended exactly one entry, with the encoded
\* name, at the end of the list.
AppendedOne ==
    /\ addResult.res = "ok"
    /\ Len(entries) = Len(addResult.before) + 1
    /\ SubSeq(entries, 1, Len(addResult.before)) = addResult.before
    /\ entries[Len(entries)].name = SjEncode(addResult.name).bytes

\* C4 as stated: a name that encodes without replacement to fewer than 56
\* bytes is appended; every name whose encoded length is 56 or more fails
\* with the name-too-long error, the list unchanged.
C4_NameWidth_Original ==
    addResult.res # "none" =>
        LET enc == SjEncode(addResult.name) IN
        /\ (~enc.err /\ Len(enc.bytes) < ENTRY_NAME_SIZE) => AppendedOne
        /\ Len(enc.bytes) >= ENTRY_NAME_SIZE =>
              (addResult.res = "too_long" /\ entries = addResult.before)

\* C4 as amended: a name that encodes without replacement to fewer than 56
\* bytes is appended; a name that encodes without replacement to 56 bytes
\* or more fails with the name-too-long error; a name that needs a
\* replacement fails with the encoding error whatever its length; a failed
\* call leaves the list unchanged.
C4_NameWidth ==
    addResult.res # "none" =>
        LET enc == SjEncode(addResult.name) IN
        /\ (~enc.err /\ Len(enc.bytes) < ENTRY_NAME_SIZE) => AppendedOne
        /\ (~enc.err /\ Len(enc.bytes) >= ENTRY_NAME_SIZE) =>
              (addResult.res = "too_long" /\ entries = addResult.before)
        /\ enc.err => (addResult.res = "encode_error" /\ entries = addResult.before)

\* A name of exactly 56 encoded bytes was refused with a list that already
\* held an entry, after a name of 55 bytes had been accepted.
C4_Witness ==
    /\ addResult.res = "too_long"
    /\ Len(SjEncode(addResult.name).bytes) = ENTRY_NAME_SIZE
    /\ entries # << >>
    /\ \E i \in 1..Len(entries) : Len(entries[i].name) = ENTRY_NAME_SIZE - 1

\* The i-th header of the file gives a size below the compressed variant's
\* overhead and points at the marker.
Undersized(i) ==
    /\ CanRead(file, HeaderAt(i), HeaderRecordSize)
    /\ ReadU32(file, HeaderAt(i) + 4).v < BMZ_HEADER_SIZE
    /\ CanRead(file, ReadU32(file, HeaderAt(i)).v, 4)
    /\ Slice(file, ReadU32(file, HeaderAt(i)).v, 4) = Magic

\* The count the file's first four bytes give.
FileCount == ReadU32(file, 0).v

\* C5: a file with an entry whose body begins with "ZLC3" and whose size is
\* below 8 fails to parse with a format error: no panic, no parsed body.
C5_UndersizedRejected ==
    (cmd # "none" /\ OffsetsRight /\ damage.kind # "unterminated" /\ ReadU32(file, 0).ok
        /\ \E i \in 1..Min(FileCount, MaxEntries + 1) : Undersized(i))
    => arc.st = "err"

\* C6: parsing any byte sequence succeeds with entries.len() equal to the
\* entries_count of the first four bytes, or returns an error; it never
\* panics.
C6_ParseTotal ==
    (cmd # "none" /\ OffsetsRight) =>
        \/ arc.st = "err"
        \/ /\ arc.st = "ok"
           /\ arc.entries_count = FileCount
           /\ Len(arc.entries) = arc.entries_count

\* C7: a TtpFile obtained by the binary reader or by serde, written and
\* read again, is read as the same value, field by field.
C7_TtpRoundTrip ==
    ttpBack.st # "none" => ttpBack = [st |-> "ok", value |-> ttp.value]

\* C8: the reader reads the trailing u8 exactly when maybe_ttp_type == 3,
\* and the writer emits a trailing byte after the frames exactly when
\* maybe_ttp_type == 3.
C8_TtpFlagTied ==
    /\ (ttpVia = "binary" /\ ttp.st = "ok") =>
          (ttp.value.unk_bool.some <=> ttp.value.maybe_ttp_type = 3)
    /\ ttpBytes.st = "ok" =>
          Len(ttpBytes.bytes)
              = 16 + Len(WriteTtpFrames(ttp.value.frames))
                + (IF ttp.value.maybe_ttp_type = 3 THEN 1 ELSE 0)

\* Two calls in a row, the second on the first's result.
ExtPairs == { k \in 1..(Len(extOut) - 1) : extOut[k].fn # extOut[k + 1].fn }

\* C9 as stated: converted_ext and original_ext are mutual inverses on
\* every extension, and every extension other than bmz and bmp is returned
\* unchanged by both.
C9_ExtBijection_Original ==
    /\ \A k \in ExtPairs : extOut[k + 1].res = extOut[k].arg
    /\ \A k \in 1..Len(extOut) :
          extOut[k].arg \notin { ExtBmz, ExtBmp } => extOut[k].res = extOut[k].arg

\* C9 as amended: converted_ext maps bmz to bmp and original_ext maps bmp
\* to bmz; original_ext(converted_ext(e)) = e for every e but bmp, and
\* converted_ext(original_ext(e)) = e for every e but bmz; every extension
\* other than bmz and bmp is returned unchanged by both.
C9_ExtInverseOnPair ==
    /\ \A k \in ExtPairs :
          \/ extOut[k].fn = "converted_ext" /\ extOut[k].arg = ExtBmp
          \/ extOut[k].fn = "original_ext" /\ extOut[k].arg = ExtBmz
          \/ extOut[k + 1].res = extOut[k].arg
    /\ \A k \in 1..Len(extOut) :
          /\ extOut[k].arg \notin { ExtBmz, ExtBmp } => extOut[k].res = extOut[k].arg
          /\ (extOut[k].fn = "converted_ext" /\ extOut[k].arg = ExtBmz)
                => extOut[k].res = ExtBmp
          /\ (extOut[k].fn = "original_ext" /\ extOut[k].arg = ExtBmp)
                => extOut[k].res = ExtBmz

\* bmz was converted and the result mapped back, and an extension outside
\* the pair went through both.
C9_Witness ==
    /\ Len(extOut) >= 2
    /\ extOut[1].fn = "converted_ext"
    /\ extOut[2].fn = "original_ext"
    /\ ext = ExtBmz
    /\ extOut[2].res = ExtBmz

\* The file pack() wrote, before a name slot was written over.
Pristine == PackBytes(entries, headerSize)

\* An entry as parsed, without its name.
Nameless(e) == [size |-> e.size, file |-> e.file]

\* The bytes of the i-th name slot of the file up to its terminator.
SlotName(i) == Slice(file, HeaderAt(i) + 8, FindNul(file, HeaderAt(i) + 8) - (HeaderAt(i) + 8))

\* C10: whether a name slot holds Shift-JIS does not change whether the
\* archive parses, nor the sizes parsed, nor (where the bodies lie after
\* the header block) the bodies; the decoding error comes from name()
\* alone; List prints one row per entry, in directory order, with the error
\* text in place of a name that does not decode.
C10_NameDeferred ==
    /\ (cmd # "none" /\ damage.kind = "name") =>
          \E oc \in BOOLEAN :
              LET was == ReadPacArc(Pristine, oc) IN
              /\ arc = ReadPacArc(file, oc)
              /\ arc.st = was.st
              /\ arc.entries_count = was.entries_count
              /\ Len(arc.entries) = Len(was.entries)
              /\ \A i \in 1..Len(arc.entries) :
                    /\ arc.entries[i].size = was.entries[i].size
                    /\ OffsetsRight => Nameless(arc.entries[i]) = Nameless(was.entries[i])
                    /\ i # damage.index => arc.entries[i].name = was.entries[i].name
                    /\ i = damage.index => SjDecode(arc.entries[i].name).err
    /\ (cmd = "list" /\ arc.st = "ok") =>
          /\ cmdResult = "ok"
          /\ Len(rows) = arc.entries_count
          /\ damage.kind \in { "none", "name", "size" } =>
                \A i \in 1..Len(rows) :
                    /\ rows[i].idx = i - 1
                    /\ rows[i].size = ReadU32(file, HeaderAt(i) + 4).v
                    /\ rows[i].name_ok = ~SjDecode(SlotName(i)).err
                    /\ rows[i].name = SjDecode(SlotName(i)).str

\* An archive of two entries whose first name slot holds no Shift-JIS was
\* listed: two rows, the first with the error text.
C10_Witness ==
    /\ cmd = "list"
    /\ damage = [kind |-> "name", index |-> 1]
    /\ arc.st = "ok"
    /\ Len(rows) = 2
    /\ ~rows[1].name_ok
    /\ rows[2].name_ok

=============================================================================
